---- MODULE Spec2Model ----
(***************************************************************************)
(* Timetable generation engine (src/src/lib/generator.js): the greedy      *)
(* slot assigner, the diagnostics evaluator and the local-swap optimizer   *)
(* of generateTimetable, as a state machine.  One behaviour is one call of *)
(* generateTimetable on one SchoolConfig.                                  *)
(*                                                                         *)
(* JavaScript values are modelled as follows.                              *)
(*  - A grid cell is a record with the same fields for every kind of       *)
(*    entry: kind is "null", "assigned" or "unassigned"; a property an     *)
(*    object does not carry (or carries as undefined) is "none"/FALSE/     *)
(*    "undef".                                                             *)
(*  - A grid row is a function on 0..length-1 (a JS array); writing at     *)
(*    index = length makes the row one cell longer, as in JS.              *)
(*  - Map/Set bookkeeping (teacherSchedule, ...) is a total function with  *)
(*    {} / 0 where the Map has no key (the code reads them with `|| ...`). *)
(*  - The 32-bit LCG state is the pair <<high 16 bits, low 16 bits>>.      *)
(*  - String comparison of ids (a.classId < b.classId, Array.sort) is      *)
(*    IdRank, the lexicographic rank of the ids that occur.                *)
(***************************************************************************)
EXTENDS Integers, Sequences, FiniteSets, TLC

VARIABLES
    schoolData,        \* the SchoolConfig passed to generateTimetable
    options,           \* { seed, optimizeIterations }
    pc,                \* "greedy" | "optimize" | "done"
    timetable,         \* classId -> grid[day][period]
    required,          \* the sorted requirement list
    slotIdx,           \* index (1-based) of the next requirement of the greedy loop
    teacherSchedule,   \* teacherId -> day -> set of periods
    resourceSchedule,  \* resourceId -> day -> set of periods
    teacherLoads,      \* teacherId -> periods assigned by the greedy pass
    rng,               \* LCG state s of createRng
    it,                \* optimizer loop counter
    bestPenalty,       \* optimizer's bestPenalty
    diagnostics,       \* the diagnostics of the returned { timetable, diagnostics }
    now,               \* Date.now()
    t0,                \* generateTimetable's t0
    greedyTimetable,   \* history: the timetable as the greedy pass left it
    calls,             \* history: the results of the calls already returned
    editLogs           \* localStorage 'editlogs-v1': the entries logEdit has stored

vars == <<schoolData, options, pc, timetable, required, slotIdx, teacherSchedule,
          resourceSchedule, teacherLoads, rng, it, bestPenalty, diagnostics, now, t0,
          greedyTimetable, calls, editLogs>>

(***************************************************************************)
(* Bounds of the model.                                                    *)
(***************************************************************************)
MaxDays == 2        \* workingDays ranges over 1..MaxDays
NumPeriods == 3     \* periodsPerDay
MaxCount == 2       \* weekly count of a subject in a class ranges over 0..MaxCount
MaxIter == 3        \* optimizeIterations is 0 or MaxIter
MaxElapsed == 1     \* Date.now() advances by 0..MaxElapsed during one call
MaxCalls == 2       \* generateTimetable is called at most MaxCalls times in a run
MaxEdits == 3       \* logEdit is called at most MaxEdits times in a run

Max(x, y) == IF x >= y THEN x ELSE y

(***************************************************************************)
(* Pseudo-random generator.                                                *)
(***************************************************************************)
LcgMultiplier == 1664525
LcgIncrement == 1013904223
DefaultSeed == 42
Word == 65536

\* mutant: one generator for the module, seeded by the first call only
createRngShared(seed) ==
    IF Len(calls) > 0 THEN rng
    ELSE <<(IF seed = 0 THEN DefaultSeed ELSE seed) \div Word,
           (IF seed = 0 THEN DefaultSeed ELSE seed) % Word>>

\* createRng(seed): let s = (seed >>> 0) || 42, seeds being 0..2^31-1 here
createRng(seed) ==
    LET s == IF seed = 0 THEN DefaultSeed ELSE seed
    IN  <<s \div Word, s % Word>>

\* mutant: the carry of the low half into the high half is lost
rngNextNoCarry(s) ==
    LET aHi == LcgMultiplier \div Word
        aLo == LcgMultiplier % Word
        cHi == LcgIncrement \div Word
        cLo == LcgIncrement % Word
        low == (aLo * s[2]) + cLo
        high == ((aHi * s[2]) % Word) + ((aLo * s[1]) % Word) + cHi
    IN  <<high % Word, low % Word>>

\* next(): s = (1664525 * s + 1013904223) >>> 0, on 16-bit halves
rngNext(s) ==
    LET aHi == LcgMultiplier \div Word
        aLo == LcgMultiplier % Word
        cHi == LcgIncrement \div Word
        cLo == LcgIncrement % Word
        low == (aLo * s[2]) + cLo
        high == ((aHi * s[2]) % Word) + ((aLo * s[1]) % Word) + cHi + (low \div Word)
    IN  <<high % Word, low % Word>>

\* Math.floor(nextFloat() * n) with nextFloat() = s / 0xffffffff, s the state
\* after next(): floor(s*n / (2^32-1)).  s*n = q*2^32 + r, so the quotient by
\* 2^32-1 is q, or q+1 when q + r >= 2^32-1 (s = 0xffffffff gives n).
floorIndex(s, n) ==
    LET t == s[2] * n
        u == (s[1] * n) + (t \div Word)
        q == u \div Word
        rHi == u % Word
        rLo == t % Word
    IN  IF rHi = Word - 1 /\ rLo + q >= Word - 1 THEN q + 1 ELSE q

(***************************************************************************)
(* The configurations generateTimetable is run on.                         *)
(***************************************************************************)
Days(data) == 0 .. data.workingDays - 1
Periods(data) == 0 .. data.periodsPerDay - 1

\* lexicographic rank of the ids in use (JS string comparison)
IdRank(id) ==
    CASE id = "c1" -> 1 [] id = "c2" -> 2
      [] id = "s1" -> 1 [] id = "s2" -> 2
      [] id = "t1" -> 1 [] id = "t2" -> 2
      [] OTHER -> 0

\* name.toLowerCase().includes('computer') on the names in use
nameIncludesComputer(name) == name \in {"Computer Science"}

FullAvailability(days, periods) == [d \in 0 .. days - 1 |-> [p \in 0 .. periods - 1 |-> TRUE]]
AvailabilityExcept(days, periods, hole) ==
    [d \in 0 .. days - 1 |-> [p \in 0 .. periods - 1 |-> <<d, p>> # hole]]

\* the subject s1 and the resource list it is scheduled with; s2 is PlainSubject
Hindi == [id |-> "s1", name |-> "Hindi", weeklyPeriods |-> 2, lab |-> FALSE,
          doublePeriod |-> FALSE, resourceType |-> "none"]
Art == [id |-> "s1", name |-> "Art", weeklyPeriods |-> 0, lab |-> FALSE,
        doublePeriod |-> TRUE, resourceType |-> "none"]
Physics == [id |-> "s1", name |-> "Physics", weeklyPeriods |-> 1, lab |-> TRUE,
            doublePeriod |-> FALSE, resourceType |-> "none"]
Chemistry == [id |-> "s1", name |-> "Chemistry", weeklyPeriods |-> 2, lab |-> TRUE,
              doublePeriod |-> TRUE, resourceType |-> "none"]
ComputerScience == [id |-> "s1", name |-> "Computer Science", weeklyPeriods |-> 2,
                    lab |-> TRUE, doublePeriod |-> FALSE, resourceType |-> "none"]
Sports == [id |-> "s1", name |-> "Sports", weeklyPeriods |-> 1, lab |-> FALSE,
           doublePeriod |-> TRUE, resourceType |-> "ground"]

PlainSubject ==
    [id |-> "s2", name |-> "Maths", weeklyPeriods |-> 1, lab |-> FALSE,
     doublePeriod |-> FALSE, resourceType |-> "none"]

\* a lab (closed in the last period of the first day) and a computer lab
Rooms(days, periods) ==
    << [id |-> "r1", type |-> "lab",
        availability |-> AvailabilityExcept(days, periods, <<0, periods - 1>>)],
       [id |-> "r2", type |-> "computer_lab",
        availability |-> FullAvailability(days, periods)] >>

\* <<s1, resources>>: no ground exists, and Physics is also run without any lab
SubjectCases(days, periods) ==
    { <<Hindi, << >> >>, <<Art, << >> >>, <<Physics, << >> >>,
      <<Physics, Rooms(days, periods)>>, <<Chemistry, Rooms(days, periods)>>,
      <<ComputerScience, Rooms(days, periods)>>, <<Sports, Rooms(days, periods)>> }

\* teacher lists (listed t2 before t1: the code sorts the ids itself); t1 is
\* away in the first period of the first day; q[1] and q[2] are the subjects
\* of t1 and of t2
TeacherLists(days, periods) ==
    { << [id |-> "t2", subjects |-> q[2], maxLoad |-> days * periods * 2,
          availability |-> FullAvailability(days, periods)],
         [id |-> "t1", subjects |-> q[1], maxLoad |-> m1,
          availability |-> AvailabilityExcept(days, periods, <<0, 0>>)] >> :
        q \in { <<{"s1", "s2"}, {"s2"}>>, <<{"s1", "s2"}, {"s1", "s2"}>>,
                <<{"s1"}, {"s1", "s2"}>> },
        m1 \in {2, days * periods * 2} }

\* class lists (listed c2 before c1)
ClassLists ==
    { << [id |-> "c2", subjects |-> [s \in {"s1", "s2"} |-> IF s = "s1" THEN n3 ELSE n4]],
         [id |-> "c1", subjects |-> [s \in {"s1", "s2"} |-> IF s = "s1" THEN n1 ELSE n2]] >> :
        n1 \in 0 .. MaxCount, n2 \in 0 .. MaxCount,
        n3 \in 0 .. MaxCount, n4 \in {0, 1} }

Configs ==
    UNION { { [workingDays |-> d, periodsPerDay |-> NumPeriods,
               subjects |-> <<k[1], PlainSubject>>,
               teachers |-> ts, classes |-> cs, resources |-> k[2]] :
                k \in SubjectCases(d, NumPeriods), ts \in TeacherLists(d, NumPeriods),
                cs \in ClassLists } :
            d \in 1 .. MaxDays }

Seeds == {0, 1000}
OptionSet == [seed : Seeds, optimizeIterations : {0, MaxIter}]

SeqToSet(s) == {s[i] : i \in 1 .. Len(s)}
ClassIds(data) == {c.id : c \in SeqToSet(data.classes)}
TeacherIds(data) == {t.id : t \in SeqToSet(data.teachers)}
ResourceIds(data) == {r.id : r \in SeqToSet(data.resources)}

(***************************************************************************)
(* buildIndex                                                              *)
(***************************************************************************)
subjectsById(data, sid) == CHOOSE s \in SeqToSet(data.subjects) : s.id = sid
teachersById(data, tid) == CHOOSE t \in SeqToSet(data.teachers) : t.id = tid
resourceById(data, rid) == CHOOSE r \in SeqToSet(data.resources) : r.id = rid
\* resourcesByType.get(type) || []: the resources of the type, in list order
resourcesByType(data, type) == SelectSeq(data.resources, LAMBDA r : r.type = type)

\* mutant: the name of a lab subject is not looked at
inferSubjectResourceTypeLabOnly(subject) ==
    IF subject.resourceType # "none" THEN subject.resourceType
    ELSE IF subject.lab THEN "lab" ELSE "none"

inferSubjectResourceType(subject) ==
    IF subject.resourceType # "none" THEN subject.resourceType
    ELSE IF subject.lab
         THEN IF nameIncludesComputer(subject.name) THEN "computer_lab" ELSE "lab"
         ELSE "none"

(***************************************************************************)
(* Grids and entries                                                       *)
(***************************************************************************)
Null == [kind |-> "null", subjectId |-> "none", teacherId |-> "none",
         resourceId |-> "none", double |-> FALSE, headOfDouble |-> "undef"]

makeEmptyGrid(days, periods) == [d \in 0 .. days - 1 |-> [p \in 0 .. periods - 1 |-> Null]]

cloneGrid(grid) == [d \in DOMAIN grid |-> [p \in DOMAIN grid[d] |-> grid[d][p]]]

\* row[p] = v on a JS array: the row grows when p is its length
SetCell(grid, d, p, v) ==
    [grid EXCEPT ![d] = [q \in (DOMAIN grid[d]) \cup {p} |-> IF q = p THEN v ELSE grid[d][q]]]


(***************************************************************************)
(* Requirement flattening and ordering                                     *)
(***************************************************************************)
RECURSIVE ConcatAll(_)
ConcatAll(ss) == IF Len(ss) = 0 THEN << >> ELSE Head(ss) \o ConcatAll(Tail(ss))

RECURSIVE SortedIds(_)
\* the ids of a set, ascending
SortedIds(S) ==
    IF S = {} THEN << >>
    ELSE LET m == CHOOSE x \in S : \A y \in S : IdRank(x) <= IdRank(y)
         IN  <<m>> \o SortedIds(S \ {m})

\* one entry of `required` for class cls and subject key sid
makeRequirement(data, cls, sid) ==
    LET count == cls.subjects[sid]
        subj == subjectsById(data, sid)
        resourceType == inferSubjectResourceType(subj)
    IN  [classId |-> cls.id, subjectId |-> sid, requiresDouble |-> subj.doublePeriod,
         weeklyPeriods |-> IF subj.weeklyPeriods # 0 THEN subj.weeklyPeriods ELSE count,
         resourceType |-> resourceType, priorityLab |-> resourceType # "none"]

\* the flatten loops: `count` requirements per class and subject key
flattenRequired(data) ==
    ConcatAll([i \in 1 .. Len(data.classes) |->
        LET cls == data.classes[i]
            keys == SortedIds(DOMAIN cls.subjects)
        IN  ConcatAll([j \in 1 .. Len(keys) |->
                [n \in 1 .. cls.subjects[keys[j]] |-> makeRequirement(data, cls, keys[j])]])])

\* mutant: the lower weeklyPeriods goes first
compareRequiredAscending(a, b) ==
    LET a1 == IF a.requiresDouble = b.requiresDouble THEN 0
              ELSE IF a.requiresDouble THEN -1 ELSE 1
        a2 == IF a.priorityLab = b.priorityLab THEN 0
              ELSE IF a.priorityLab THEN -1 ELSE 1
        a3 == a.weeklyPeriods - b.weeklyPeriods
    IN  IF a1 # 0 THEN a1
        ELSE IF a2 # 0 THEN a2
        ELSE IF a3 # 0 THEN a3
        ELSE IF a.classId # b.classId
             THEN (IF IdRank(a.classId) < IdRank(b.classId) THEN -1 ELSE 1)
        ELSE IF a.subjectId # b.subjectId
             THEN (IF IdRank(a.subjectId) < IdRank(b.subjectId) THEN -1 ELSE 1)
        ELSE 0

\* the comparator of required.sort: negative when a goes first
compareRequired(a, b) ==
    LET a1 == IF a.requiresDouble = b.requiresDouble THEN 0
              ELSE IF a.requiresDouble THEN -1 ELSE 1
        a2 == IF a.priorityLab = b.priorityLab THEN 0
              ELSE IF a.priorityLab THEN -1 ELSE 1
        a3 == b.weeklyPeriods - a.weeklyPeriods
    IN  IF a1 # 0 THEN a1
        ELSE IF a2 # 0 THEN a2
        ELSE IF a3 # 0 THEN a3
        ELSE IF a.classId # b.classId
             THEN (IF IdRank(a.classId) < IdRank(b.classId) THEN -1 ELSE 1)
        ELSE IF a.subjectId # b.subjectId
             THEN (IF IdRank(a.subjectId) < IdRank(b.subjectId) THEN -1 ELSE 1)
        ELSE 0

\* stable insertion of x into a sorted sequence
InsertSorted(x, s) ==
    LET before == {i \in 1 .. Len(s) : compareRequired(x, s[i]) < 0}
        k == IF before = {} THEN Len(s) + 1
             ELSE CHOOSE i \in before : \A j \in before : i <= j
    IN  SubSeq(s, 1, k - 1) \o <<x>> \o SubSeq(s, k, Len(s))

RECURSIVE sortRequired(_)
\* Array.prototype.sort (stable) with compareRequired
sortRequired(s) ==
    IF Len(s) = 0 THEN << >>
    ELSE InsertSorted(s[Len(s)], sortRequired(SubSeq(s, 1, Len(s) - 1)))

\* teacherOrder: the teacher ids, sorted
teacherOrder(data) == SortedIds(TeacherIds(data))

maxLoadByTeacher(data, teacherId) == teachersById(data, teacherId).maxLoad

(***************************************************************************)
(* Feasibility helpers of the greedy assigner                              *)
(***************************************************************************)

\* mutant: any teacher with some subject qualifies
teacherCanTeachAny(teacher, subjectId) == teacher.subjects # {}

teacherCanTeach(teacher, subjectId) == subjectId \in teacher.subjects


\* mutant: only the day is looked up, not the periods
checkTeacherAvailabilityDayOnly(teacher, day, periods) ==
    day \in DOMAIN teacher.availability

checkTeacherAvailability(teacher, day, periods) ==
    /\ day \in DOMAIN teacher.availability
    /\ \A p \in periods :
          p \in DOMAIN teacher.availability[day] /\ teacher.availability[day][p]

\* mutant: only the first cell of the span is looked at
slotsAreFreeFirstOnly(grid, day, periods) ==
    \E p \in periods : (\A q \in periods : p <= q) /\ grid[day][p].kind = "null"

slotsAreFree(grid, day, periods) == \A p \in periods : grid[day][p].kind = "null"


\* mutant: the occupancy schedule is never consulted
teacherFreeScheduleAlways(tSchedule, teacherId, day, periods) == TRUE

teacherFreeSchedule(tSchedule, teacherId, day, periods) ==
    tSchedule[teacherId][day] \cap periods = {}

occupyTeacherSchedule(tSchedule, teacherId, day, periods) ==
    [tSchedule EXCEPT ![teacherId][day] = @ \cup periods]

resourceFree(resource, day, periods) ==
    /\ day \in DOMAIN resource.availability
    /\ \A p \in periods :
          p \in DOMAIN resource.availability[day] /\ resource.availability[day][p]

resourceOccupied(rSchedule, resourceId, day, periods) ==
    rSchedule[resourceId][day] \cap periods # {}

occupyResource(rSchedule, resourceId, day, periods) ==
    [rSchedule EXCEPT ![resourceId][day] = @ \cup periods]

totalTeacherLoad(tLoads, teacherId) == tLoads[teacherId]

incTeacherLoad(tLoads, teacherId, by) == [tLoads EXCEPT ![teacherId] = @ + by]


\* mutant: the span is left out of the load test
loadExceededNoSpan(load, periodSpan, maxLoad) == load > maxLoad

\* the load test of tryAssignSlot: the teacher is skipped when it holds
loadExceeded(load, periodSpan, maxLoad) == load + periodSpan > maxLoad

\* the span of a requirement or entry starting at period p
spanPeriods(isDouble, p) == IF isDouble THEN {p, p + 1} ELSE {p}

\* the resource loop: index in `list` of the first resource that is available
\* and unoccupied in the periods, 0 when there is none
chooseResource(list, rSchedule, day, periods) ==
    LET ok == {i \in 1 .. Len(list) :
                  /\ resourceFree(list[i], day, periods)
                  /\ ~resourceOccupied(rSchedule, list[i].id, day, periods)}
    IN  IF ok = {} THEN 0 ELSE CHOOSE i \in ok : \A j \in ok : i <= j

\* the tests of the teacher loop for one candidate (day, periods, teacher)
teacherQualifies(data, teacherId, subjectId, day, periods, periodSpan, tSchedule, tLoads) ==
    LET t == teachersById(data, teacherId)
    IN  /\ teacherCanTeach(t, subjectId)
        /\ checkTeacherAvailability(t, day, periods)
        /\ teacherFreeSchedule(tSchedule, teacherId, day, periods)
        /\ ~loadExceeded(totalTeacherLoad(tLoads, teacherId), periodSpan,
                         maxLoadByTeacher(data, teacherId))

\* mutant: the periods are scanned in the outer loop, the days in the inner
loopBeforePeriodMajor(x, y) ==
    \/ x[2] < y[2]
    \/ x[2] = y[2] /\ x[1] < y[1]
    \/ x[1] = y[1] /\ x[2] = y[2] /\ x[3] <= y[3]

\* <<d, p, i>> before <<e, q, j>> in the order of the three nested loops
loopBefore(x, y) ==
    \/ x[1] < y[1]
    \/ x[1] = y[1] /\ x[2] < y[2]
    \/ x[1] = y[1] /\ x[2] = y[2] /\ x[3] <= y[3]

\* the assigned entry and its second half
assignedEntry(subjectId, teacherId, resourceId, isDouble, head) ==
    [kind |-> "assigned", subjectId |-> subjectId, teacherId |-> teacherId,
     resourceId |-> resourceId, double |-> isDouble, headOfDouble |-> head]

unassignedMarker(subjectId) ==
    [kind |-> "unassigned", subjectId |-> subjectId, teacherId |-> "none",
     resourceId |-> "none", double |-> FALSE, headOfDouble |-> "undef"]

\* tryAssignSlot: the new classGrid, teacherSchedule, resourceSchedule and
\* teacherLoads, and the returned boolean
tryAssignSlot(classGrid, subjectId, requiresDouble, resourceType, data, tSchedule, rSchedule, tLoads) ==
    LET periodSpan == IF requiresDouble THEN 2 ELSE 1
        teacherList == teacherOrder(data)
        list == resourcesByType(data, resourceType)
        starts == {p \in Periods(data) : p + periodSpan - 1 < data.periodsPerDay}
        cands == {x \in Days(data) \X starts \X (1 .. Len(teacherList)) :
                    LET periods == spanPeriods(requiresDouble, x[2])
                    IN  /\ slotsAreFree(classGrid, x[1], periods)
                        /\ teacherQualifies(data, teacherList[x[3]], subjectId, x[1],
                                            periods, periodSpan, tSchedule, tLoads)
                        /\ (resourceType # "none" =>
                               chooseResource(list, rSchedule, x[1], periods) # 0)}
        free == {x \in Days(data) \X starts \X {1} :
                    slotsAreFree(classGrid, x[1], spanPeriods(requiresDouble, x[2]))}
    IN  IF cands # {}
        THEN LET x == CHOOSE c \in cands : \A o \in cands : loopBefore(c, o)
                 d == x[1]
                 p == x[2]
                 teacherId == teacherList[x[3]]
                 periods == spanPeriods(requiresDouble, p)
                 r == IF resourceType # "none"
                      THEN chooseResource(list, rSchedule, d, periods) ELSE 0
                 rid == IF r # 0 THEN list[r].id ELSE "none"
                 entry == assignedEntry(subjectId, teacherId, rid, requiresDouble,
                                        IF requiresDouble THEN "true" ELSE "undef")
                 g1 == SetCell(classGrid, d, p, entry)
                 g2 == IF requiresDouble
                       THEN SetCell(g1, d, p + 1, [entry EXCEPT !.headOfDouble = "false"])
                       ELSE g1
             IN  [classGrid |-> g2,
                  teacherSchedule |-> occupyTeacherSchedule(tSchedule, teacherId, d, periods),
                  resourceSchedule |-> IF r # 0
                                       THEN occupyResource(rSchedule, rid, d, periods)
                                       ELSE rSchedule,
                  teacherLoads |-> incTeacherLoad(tLoads, teacherId, periodSpan),
                  ok |-> TRUE]
        ELSE IF free # {}
        THEN LET x == CHOOSE c \in free : \A o \in free : loopBefore(c, o)
                 un == unassignedMarker(subjectId)
                 g1 == SetCell(classGrid, x[1], x[2], un)
                 g2 == IF requiresDouble THEN SetCell(g1, x[1], x[2] + 1, un) ELSE g1
             IN  [classGrid |-> g2, teacherSchedule |-> tSchedule,
                  resourceSchedule |-> rSchedule, teacherLoads |-> tLoads, ok |-> FALSE]
        ELSE [classGrid |-> classGrid, teacherSchedule |-> tSchedule,
              resourceSchedule |-> rSchedule, teacherLoads |-> tLoads, ok |-> FALSE]


(***************************************************************************)
(* Diagnostics / penalty evaluator                                         *)
(***************************************************************************)
UnassignedPenalty == 20
AdjacencyPenalty == 10
GapPenalty == 5

CellsOf(tt, data) == {x \in (DOMAIN tt) \X Days(data) \X Periods(data) : TRUE}
EntryAt(tt, x) == tt[x[1]][x[2]][x[3]]

\* mutant: the usage of a teacher is not kept per day
teacherBusyAnyDay(tt, teacherId, day, p) ==
    \E c \in DOMAIN tt : \E d \in DOMAIN tt[c] :
        tt[c][d][p].kind = "assigned" /\ tt[c][d][p].teacherId = teacherId

\* teacherDayUsage: the teacher has an assigned cell at (day, p)
teacherBusy(tt, teacherId, day, p) ==
    \E c \in DOMAIN tt :
        tt[c][day][p].kind = "assigned" /\ tt[c][day][p].teacherId = teacherId

computeDiagnostics(tt, data) ==
    LET cells == CellsOf(tt, data)
        unassigned == {x \in cells : EntryAt(tt, x).kind = "unassigned"}
        assigned == {x \in cells : EntryAt(tt, x).kind = "assigned"}
        adjacent == {x \in assigned :
                        /\ x[3] + 1 < data.periodsPerDay
                        /\ tt[x[1]][x[2]][x[3] + 1].kind = "assigned"
                        /\ EntryAt(tt, x).subjectId # "none"
                        /\ tt[x[1]][x[2]][x[3] + 1].subjectId = EntryAt(tt, x).subjectId}
        used == {EntryAt(tt, x).teacherId : x \in assigned} \ {"none"}
        gaps == {y \in used \X Days(data) \X Periods(data) :
                    /\ y[3] >= 1
                    /\ y[3] + 1 < data.periodsPerDay
                    /\ teacherBusy(tt, y[1], y[2], y[3] - 1)
                    /\ ~teacherBusy(tt, y[1], y[2], y[3])
                    /\ teacherBusy(tt, y[1], y[2], y[3] + 1)}
    IN  [unassignedCount |-> Cardinality(unassigned),
         penaltyScore |-> UnassignedPenalty * Cardinality(unassigned)
                          + AdjacencyPenalty * Cardinality(adjacent)
                          + GapPenalty * Cardinality(gaps),
         teacherLoads |-> [t \in used |->
                              Cardinality({x \in assigned : EntryAt(tt, x).teacherId = t})]]

\* mutant: the closure counts the unassigned markers only
totalPenaltyMarkersOnly(tt, data) ==
    UnassignedPenalty * computeDiagnostics(tt, data).unassignedCount

totalPenalty(tt, data) == computeDiagnostics(tt, data).penaltyScore

\* an argument that is not passed, a field that is not there
Undefined == [kind |-> "undefined"]

\* mutant: only the unassigned markers are scored
computePenaltyMarkersOnly(tt, data, learnedPenalties) ==
    UnassignedPenalty * computeDiagnostics(tt, data).unassignedCount

\* mutant: every assigned cell adds the learned penalty of its teacher at its
\* period
computePenaltyLearned(tt, data, learnedPenalties) ==
    LET d == computeDiagnostics(tt, data)
        weight(x) ==
            LET e == EntryAt(tt, x)
            IN  IF /\ learnedPenalties # Undefined
                   /\ e.kind = "assigned"
                   /\ e.teacherId \in DOMAIN learnedPenalties.teacherPeriods
                   /\ x[3] \in DOMAIN learnedPenalties.teacherPeriods[e.teacherId]
                THEN learnedPenalties.teacherPeriods[e.teacherId][x[3]]
                ELSE 0
    IN  d.penaltyScore
          + Cardinality(UNION {{<<x, k>> : k \in 1 .. weight(x)} : x \in CellsOf(tt, data)})

\* computePenalty(timetable, schoolData, learnedPenalties): d.penaltyScore || 0
computePenalty(tt, data, learnedPenalties) ==
    LET d == computeDiagnostics(tt, data)
    IN  IF d.penaltyScore = 0 THEN 0 ELSE d.penaltyScore

(***************************************************************************)
(* Local-swap optimizer                                                    *)
(***************************************************************************)
\* the pool: the assigned cells that are not the second half of a double, in
\* the order of Object.entries(timetable), day, period
collectAssignedSlots(tt, data) ==
    ConcatAll([i \in 1 .. Len(data.classes) |->
        ConcatAll([dd \in 1 .. data.workingDays |->
            ConcatAll([pp \in 1 .. data.periodsPerDay |->
                LET e == tt[data.classes[i].id][dd - 1][pp - 1]
                IN  IF e.kind # "assigned" \/ (e.double /\ e.headOfDouble = "false")
                    THEN << >>
                    ELSE << [classId |-> data.classes[i].id, day |-> dd - 1,
                             period |-> pp - 1] >>])])])

\* mutant: the exemption for the halves of a double is granted to any entry
\* of the counterpart's subject and teacher
destFreeSameLesson(targetGrid, day, perArr, exceptEntry, exceptDay, exceptPeriod) ==
    \A p \in perArr :
        LET x == targetGrid[day][p]
        IN  \/ x.kind = "null"
            \/ day = exceptDay /\ p = exceptPeriod
            \/ /\ x.subjectId = exceptEntry.subjectId
               /\ x.teacherId = exceptEntry.teacherId

\* destFree of swapFeasible; `x === exceptEntry` holds exactly of the cell the
\* counterpart was read from, (exceptDay, exceptPeriod) of targetGrid
destFree(targetGrid, day, perArr, exceptEntry, exceptDay, exceptPeriod) ==
    \A p \in perArr :
        LET x == targetGrid[day][p]
        IN  \/ x.kind = "null"
            \/ day = exceptDay /\ p = exceptPeriod
            \/ /\ exceptEntry.double
               /\ x.double
               /\ x.subjectId = exceptEntry.subjectId
               /\ x.teacherId = exceptEntry.teacherId

teacherHasConflict(tt, movingEntry, destClassId, day, perArr) ==
    \E p \in perArr : \E cid \in (DOMAIN tt) \ {destClassId} :
        LET e == tt[cid][day][p]
        IN  /\ e.kind = "assigned"
            /\ \/ e.teacherId # "none" /\ e.teacherId = movingEntry.teacherId
               \/ movingEntry.resourceId # "none" /\ e.resourceId = movingEntry.resourceId

swapFeasible(a, b, tt, data) ==
    LET periods == data.periodsPerDay
        Agrid == tt[a.classId]
        Bgrid == tt[b.classId]
        Aentry == Agrid[a.day][a.period]
        Bentry == Bgrid[b.day][b.period]
        Aperiods == spanPeriods(Aentry.double, a.period)
        Bperiods == spanPeriods(Bentry.double, b.period)
    IN  /\ ~(Aentry.double /\ a.period + 1 >= periods)
        /\ ~(Bentry.double /\ b.period + 1 >= periods)
        /\ destFree(Bgrid, a.day, Aperiods, Bentry, b.day, b.period)
        /\ destFree(Agrid, b.day, Bperiods, Aentry, a.day, a.period)
        /\ ~teacherHasConflict(tt, Aentry, b.classId, b.day, Bperiods)
        /\ ~teacherHasConflict(tt, Bentry, a.classId, a.day, Aperiods)

SetEntry(tt, classId, d, p, v) == [tt EXCEPT ![classId] = SetCell(@, d, p, v)]

\* moveEntry of applySwap, on the grids timetable[srcClass] and timetable[dstClass]
moveEntry(tt, srcClass, src, dstClass, dst) ==
    LET entry == tt[srcClass][src.day][src.period]
        c1 == SetEntry(tt, srcClass, src.day, src.period, Null)
        c2 == IF entry.double THEN SetEntry(c1, srcClass, src.day, src.period + 1, Null)
              ELSE c1
        m1 == SetEntry(c2, dstClass, dst.day, dst.period,
                  [entry EXCEPT !.headOfDouble = IF entry.double THEN "true" ELSE "undef"])
        m2 == IF entry.double
              THEN SetEntry(m1, dstClass, dst.day, dst.period + 1,
                            [entry EXCEPT !.headOfDouble = "false"])
              ELSE m1
    IN  m2

\* applySwap: moveEntry(Agrid, a, Bgrid, b), then moveEntry(Bgrid, b, Agrid, a) on
\* what the first left.  ({e(x) : x \in {v}} evaluates v once and names it x.)
applySwap(a, b, tt) ==
    CHOOSE r \in {moveEntry(m, b.classId, b, a.classId, a) :
                    m \in {moveEntry(tt, a.classId, a, b.classId, b)}} : TRUE

\* Math.max(0, options.optimizeIterations)
iterationsOf(opts) == Max(0, opts.optimizeIterations)


\* mutant: the loop runs once more
loopContinuesInclusive(i, iterations) == i <= iterations

\* the loop condition of the optimizer
loopContinues(i, iterations) == i < iterations


\* mutant: the comparison is inverted
keepSwapInverted(newPenalty, best) == newPenalty > best

\* mutant: an equal penalty is accepted too
keepSwapNonStrict(newPenalty, best) == newPenalty <= best

\* the acceptance test
keepSwap(newPenalty, best) == newPenalty < best

\* one iteration up to the two picks: the pool, the generator after the two
\* draws, the indices drawn; pool[i] is undefined when i = pool.length
drawPair(tt, data, s) ==
    LET pool == collectAssignedSlots(tt, data)
        s1 == rngNext(s)
        s2 == rngNext(s1)
        ia == floorIndex(s1, Len(pool))
        ib == floorIndex(s2, Len(pool))
    IN  [pool |-> pool, rng |-> s2, ia |-> ia, ib |-> ib,
         defined |-> ia < Len(pool) /\ ib < Len(pool)]

\* mutant: only the first class's grid is restored
revertSwapOnlyA(a, b, before, after) ==
    [after EXCEPT ![a.classId] = cloneGrid(before[a.classId])]

\* the timetable after the revert from the snapshot taken before applySwap
revertSwap(a, b, before, after) ==
    LET snapshot == [Agr |-> cloneGrid(before[a.classId]),
                     Bgr |-> cloneGrid(before[b.classId])]
        r1 == [after EXCEPT ![a.classId] = snapshot.Agr]
    IN  [r1 EXCEPT ![b.classId] = snapshot.Bgr]

\* apply and evaluate: the pass from the snapshot to the keep / revert decision,
\* `swapped` being the timetable applySwap left
evaluateSwap(a, b, tt, data, best, s, swapped) ==
    LET newPenalty == totalPenalty(swapped, data)
    IN  IF keepSwap(newPenalty, best)
        THEN [outcome |-> "keep", timetable |-> swapped, bestPenalty |-> newPenalty,
              rng |-> s]
        ELSE [outcome |-> "revert", timetable |-> revertSwap(a, b, tt, swapped),
              bestPenalty |-> best, rng |-> s]

\* the loop body after the two draws dr
iterateWith(tt, data, best, dr) ==
    LET a == dr.pool[dr.ia + 1]
        b == dr.pool[dr.ib + 1]
        same == [timetable |-> tt, bestPenalty |-> best, rng |-> dr.rng]
    IN  IF ~dr.defined \/ a = b
        THEN [outcome |-> "skip"] @@ same
        ELSE IF ~swapFeasible(a, b, tt, data)
        THEN [outcome |-> "infeasible"] @@ same
        ELSE CHOOSE r \in {evaluateSwap(a, b, tt, data, best, dr.rng, swapped) :
                             swapped \in {applySwap(a, b, tt)}} : TRUE

\* the outcome of one pass of the optimizer loop body:
\*   "skip"        a pick is undefined, or both picks are the same slot
\*   "infeasible"  swapFeasible returned false
\*   "keep"        the swap was applied and kept
\*   "revert"      the swap was applied and reverted
\* with the timetable, bestPenalty and generator state it leaves
iterate(tt, data, s, best) ==
    CHOOSE r \in {iterateWith(tt, data, best, dr) : dr \in {drawPair(tt, data, s)}} : TRUE

(***************************************************************************)
(* The state machine of one generateTimetable call                         *)
(***************************************************************************)
NoOptions == [seed |-> -1, optimizeIterations |-> -1]
NoDiagnostics == [unassignedCount |-> 0, penaltyScore |-> 0, teacherLoads |-> << >>,
                  timeTakenMs |-> 0, timeMs |-> 0]

EmptyTimetable(data) ==
    [c \in ClassIds(data) |-> makeEmptyGrid(data.workingDays, data.periodsPerDay)]

\* the state after the set-up of a call on a SchoolConfig of the family
InitOver(configs) ==
    /\ schoolData \in configs
    /\ options = NoOptions
    /\ pc = "greedy"
    /\ timetable = EmptyTimetable(schoolData)
    /\ required = sortRequired(flattenRequired(schoolData))
    /\ slotIdx = 1
    /\ teacherSchedule = [t \in TeacherIds(schoolData) |-> [d \in Days(schoolData) |-> {}]]
    /\ resourceSchedule = [r \in ResourceIds(schoolData) |-> [d \in Days(schoolData) |-> {}]]
    /\ teacherLoads = [t \in TeacherIds(schoolData) |-> 0]
    /\ rng = <<0, 0>>
    /\ it = 0
    /\ bestPenalty = 0
    /\ diagnostics = NoDiagnostics
    /\ now = 0
    /\ t0 = 0
    /\ greedyTimetable = EmptyTimetable(schoolData)
    /\ calls = << >>

Init == InitOver(Configs) /\ editLogs = << >>

\* one pass of the greedy loop: tryAssignSlot on the next requirement
Assign ==
    /\ pc = "greedy"
    /\ slotIdx <= Len(required)
    /\ \E slot \in {required[slotIdx]} :
       \E r \in {tryAssignSlot(timetable[slot.classId], slot.subjectId, slot.requiresDouble,
                               slot.resourceType, schoolData, teacherSchedule,
                               resourceSchedule, teacherLoads)} :
           /\ timetable' = [timetable EXCEPT ![slot.classId] = r.classGrid]
           /\ teacherSchedule' = r.teacherSchedule
           /\ resourceSchedule' = r.resourceSchedule
           /\ teacherLoads' = r.teacherLoads
    /\ slotIdx' = slotIdx + 1
    /\ UNCHANGED <<editLogs, calls, schoolData, options, pc, required, rng, it, bestPenalty, diagnostics,
                   now, t0, greedyTimetable>>

\* lines 455-462 on the options object o of the call: the budget and the seed
\* are read from it ((options && options.seed) || 42: a seed that is missing
\* or 0 gives 42), the generator is created, the greedy timetable is scored
readOptions(o) ==
    /\ options' = o
    /\ rng' = createRng(IF "seed" \in DOMAIN o /\ o.seed # 0 THEN o.seed ELSE DefaultSeed)
    /\ bestPenalty' = totalPenalty(timetable, schoolData)
    /\ it' = 0
    /\ pc' = "optimize"
    /\ greedyTimetable' = timetable
    /\ UNCHANGED <<editLogs, calls, schoolData, timetable, required, slotIdx, teacherSchedule,
                   resourceSchedule, teacherLoads, diagnostics, now, t0>>

\* the greedy loop is over: read the options, create the generator, score
StartOptimizer ==
    /\ pc = "greedy"
    /\ slotIdx > Len(required)
    /\ \E o \in OptionSet : readOptions(o)

InLoop ==
    /\ pc = "optimize"
    /\ loopContinues(it, iterationsOf(options))
    /\ Len(collectAssignedSlots(timetable, schoolData)) >= 2

\* one pass of the loop body with the given outcome
Iteration(outcome) ==
    /\ \E r \in {iterate(timetable, schoolData, rng, bestPenalty)} :
           /\ r.outcome = outcome
           /\ timetable' = r.timetable
           /\ bestPenalty' = r.bestPenalty
           /\ rng' = r.rng
    /\ it' = it + 1
    /\ UNCHANGED <<editLogs, calls, schoolData, options, pc, required, slotIdx, teacherSchedule,
                   resourceSchedule, teacherLoads, diagnostics, now, t0,
                   greedyTimetable>>

\* an iteration that ends at a `continue` before swapFeasible
IterSkip == InLoop /\ Iteration("skip")

\* an iteration whose swap is not feasible
IterInfeasible == InLoop /\ Iteration("infeasible")

\* an iteration that applies the swap and keeps it
IterKeep == InLoop /\ Iteration("keep")

\* an iteration that applies the swap and reverts it
IterRevert == InLoop /\ Iteration("revert")

\* the loop is left (budget used up, or fewer than 2 pooled entries): return
Return ==
    /\ pc = "optimize"
    /\ ~InLoop
    /\ \E elapsed \in 0 .. MaxElapsed :
          /\ now' = now + elapsed
          /\ diagnostics' = computeDiagnostics(timetable, schoolData)
                             @@ [timeTakenMs |-> now' - t0, timeMs |-> now' - t0]
    /\ pc' = "done"
    /\ UNCHANGED <<editLogs, calls, schoolData, options, timetable, required, slotIdx, teacherSchedule,
                   resourceSchedule, teacherLoads, rng, it, bestPenalty, t0,
                   greedyTimetable>>

Next ==
    \/ Assign
    \/ StartOptimizer
    \/ IterSkip
    \/ IterInfeasible
    \/ IterKeep
    \/ IterRevert
    \/ Return

Spec == Init /\ [][Next]_vars

\* the configurations of the fair runs: one working day, every subject case
\* and every pair of s1 counts, one Maths lesson for c1 and none for c2, t1
\* load-bound
FairConfigs ==
    {c \in Configs :
        /\ c.workingDays = 1
        /\ \A i \in 1 .. Len(c.classes) :
              c.classes[i].subjects["s2"] = (IF c.classes[i].id = "c1" THEN 1 ELSE 0)
        /\ teachersById(c, "t1").maxLoad = 2
        /\ teachersById(c, "t1").subjects = {"s1", "s2"}
        /\ teachersById(c, "t2").subjects = {"s2"}}

InitFair == Init /\ schoolData \in FairConfigs

\* generateTimetable is one synchronous call: a step that can be taken is taken
FairSpec == InitFair /\ [][Next]_vars /\ WF_vars(Next)

(***************************************************************************)
(* Repeated calls: the caller calls generateTimetable again with the same  *)
(* SchoolConfig (and options of its choice)                                *)
(***************************************************************************)
\* the configurations of the repeated-call runs: one working day, s1 the
\* double-period subject Art, one Maths lesson for c1, t1 load-bound
RepeatConfigs ==
    {c \in Configs :
        /\ c.workingDays = 1
        /\ c.subjects[1] = Art
        /\ \E i \in 1 .. Len(c.classes) :
              c.classes[i].id = "c1" /\ c.classes[i].subjects["s2"] = 1
        /\ teachersById(c, "t1").maxLoad = 2}

InitRepeat == Init /\ schoolData \in RepeatConfigs

\* the call has returned and the caller calls again: timetable, the sorted
\* requirements, the schedules and the loads are built anew (lines 381-429);
\* the generator object of the returned call is garbage until line 456 makes
\* the next one
CallAgain ==
    /\ pc = "done"
    /\ Len(calls) + 1 < MaxCalls
    /\ calls' = Append(calls, [options |-> options, timetable |-> timetable,
                               diagnostics |-> diagnostics])
    /\ pc' = "greedy"
    /\ options' = NoOptions
    /\ timetable' = EmptyTimetable(schoolData)
    /\ required' = sortRequired(flattenRequired(schoolData))
    /\ slotIdx' = 1
    /\ teacherSchedule' = [t \in TeacherIds(schoolData) |-> [d \in Days(schoolData) |-> {}]]
    /\ resourceSchedule' = [r \in ResourceIds(schoolData) |-> [d \in Days(schoolData) |-> {}]]
    /\ teacherLoads' = [t \in TeacherIds(schoolData) |-> 0]
    /\ it' = 0
    /\ bestPenalty' = 0
    /\ diagnostics' = NoDiagnostics
    /\ t0' = now
    /\ greedyTimetable' = EmptyTimetable(schoolData)
    /\ UNCHANGED <<editLogs, schoolData, rng, now>>

NextRepeat ==
    \/ Next
    \/ CallAgain

SpecRepeat == InitRepeat /\ [][NextRepeat]_vars

(***************************************************************************)
(* Calls on SchoolConfigs whose two subjects differ in every sort key      *)
(***************************************************************************)
English == [id |-> "s1", name |-> "English", weeklyPeriods |-> 1, lab |-> FALSE,
            doublePeriod |-> FALSE, resourceType |-> "none"]
Biology == [id |-> "s2", name |-> "Biology", weeklyPeriods |-> 1, lab |-> TRUE,
            doublePeriod |-> FALSE, resourceType |-> "none"]
Music == [id |-> "s2", name |-> "Music", weeklyPeriods |-> 1, lab |-> FALSE,
          doublePeriod |-> TRUE, resourceType |-> "none"]

\* one working day, the two rooms, t1 load-bound; s1 among a plain subject of
\* two weekly periods, a lab subject, a double-period subject and a plain one,
\* s2 among a plain subject, a lab subject and a double-period subject
SortConfigs ==
    { [workingDays |-> 1, periodsPerDay |-> NumPeriods,
       subjects |-> <<k1, k2>>, teachers |-> ts, classes |-> cs,
       resources |-> Rooms(1, NumPeriods)] :
        k1 \in {Hindi, Physics, Art, English}, k2 \in {PlainSubject, Biology, Music},
        ts \in {t \in TeacherLists(1, NumPeriods) : teachersById([teachers |-> t], "t1").maxLoad = 2},
        cs \in ClassLists }

InitSort == InitOver(SortConfigs) /\ editLogs = << >>
SpecSort == InitSort /\ [][Next]_vars


(***************************************************************************)
(* Properties                                                              *)
(***************************************************************************)
GridCells == ClassIds(schoolData) \X Days(schoolData) \X Periods(schoolData)
Cell(x) == timetable[x[1]][x[2]][x[3]]
AssignedCells == {x \in GridCells : Cell(x).kind = "assigned"}
MarkerCells == {x \in GridCells : Cell(x).kind = "unassigned"}
SubjectIds == {sb.id : sb \in SeqToSet(schoolData.subjects)}
ClassRecord(c) == CHOOSE cls \in SeqToSet(schoolData.classes) : cls.id = c
SpanOf(sid) == IF subjectsById(schoolData, sid).doublePeriod THEN 2 ELSE 1
AfterGreedy == pc \in {"optimize", "done"}

\* C1: at every point of generation, at every (day, period), no teacherId and
\* no resourceId appears in the assignment cells of two distinct classes.
NoDoubleBooking ==
    \A x \in AssignedCells : \A y \in AssignedCells :
        (x[1] # y[1] /\ x[2] = y[2] /\ x[3] = y[3]) =>
            /\ Cell(x).teacherId # Cell(y).teacherId
            /\ (Cell(x).resourceId # "none" => Cell(x).resourceId # Cell(y).resourceId)

\* C1 witness: during the optimizer, after an iteration, two classes are taught
\* in the same (day, period), one of them in a room that the other class uses
\* at another time
NoDoubleBookingWitness ==
    /\ pc = "optimize"
    /\ it >= 1
    /\ \E x \in AssignedCells : \E y \in AssignedCells :
          /\ x[1] # y[1] /\ x[2] = y[2] /\ x[3] = y[3]
          /\ Cell(x).resourceId # "none"
          /\ \E z \in AssignedCells :
                z[1] # x[1] /\ Cell(z).resourceId = Cell(x).resourceId

\* the cells of class c that carry subject sid, assigned or unassigned marker
DemandCells(c, sid) ==
    {x \in AssignedCells \cup MarkerCells : x[1] = c /\ Cell(x).subjectId = sid}

\* C2: in the returned timetable, for every class and subject with weekly count
\* N, assigned entries plus unassigned markers (the two cells of a double
\* counted as one) number N.
DemandConservation ==
    pc = "done" =>
        \A c \in ClassIds(schoolData) : \A sid \in SubjectIds :
            Cardinality(DemandCells(c, sid)) = ClassRecord(c).subjects[sid] * SpanOf(sid)

\* the partner cell of a double entry at x is well formed
HasPartner(x) ==
    LET e == Cell(x)
        q == IF e.headOfDouble = "true" THEN x[3] + 1 ELSE x[3] - 1
    IN  /\ e.headOfDouble \in {"true", "false"}
        /\ q \in Periods(schoolData)
        /\ timetable[x[1]][x[2]][q].kind = "assigned"
        /\ timetable[x[1]][x[2]][q].double
        /\ timetable[x[1]][x[2]][q].subjectId = e.subjectId
        /\ timetable[x[1]][x[2]][q].teacherId = e.teacherId
        /\ timetable[x[1]][x[2]][q].headOfDouble # e.headOfDouble

\* C3: after the greedy pass and after every optimizer iteration, every entry
\* with double=true has its partner in the adjacent period of the same day and
\* class, same subject and teacher, the earlier one being the head.
DoublePairing ==
    AfterGreedy => \A x \in AssignedCells : Cell(x).double => HasPartner(x)

AvailabilityRespected ==
    \A x \in AssignedCells :
        /\ teachersById(schoolData, Cell(x).teacherId).availability[x[2]][x[3]]
        /\ Cell(x).resourceId # "none" =>
               resourceById(schoolData, Cell(x).resourceId).availability[x[2]][x[3]]

\* C5 witness: a returned timetable, after optimizer iterations, in which the
\* period teacher t1 is away is taught by somebody else and a room is in use
AvailabilityWitness ==
    /\ pc = "done"
    /\ it >= 1
    /\ \E x \in AssignedCells :
          ~teachersById(schoolData, "t1").availability[x[2]][x[3]]
    /\ \E x \in AssignedCells : Cell(x).resourceId # "none"

\* C6: every assignment names a teacher whose subjects contain its subjectId.
TeacherQualified ==
    \A x \in AssignedCells :
        Cell(x).subjectId \in teachersById(schoolData, Cell(x).teacherId).subjects

\* C6 witness: a returned timetable with an s1 lesson although one teacher of
\* the school cannot teach s1
TeacherQualifiedWitness ==
    /\ pc = "done"
    /\ \E x \in AssignedCells : Cell(x).subjectId = "s1"
    /\ \E t \in SeqToSet(schoolData.teachers) : "s1" \notin t.subjects

\* C7: bestPenalty never increases from one optimizer iteration to the next;
\* the returned penalty is at most the penalty of the greedy result and equals
\* computeDiagnostics applied to the returned timetable.
OptimizerMonotone ==
    /\ [][(pc = "optimize" /\ pc' = "optimize") => bestPenalty' <= bestPenalty]_vars
    /\ [](pc = "done" =>
            /\ diagnostics.penaltyScore <= totalPenalty(greedyTimetable, schoolData)
            /\ diagnostics.penaltyScore = totalPenalty(timetable, schoolData))

\* C7 witness: a returned result whose penalty is below the greedy result's
OptimizerMonotoneWitness ==
    /\ pc = "done"
    /\ diagnostics.penaltyScore < totalPenalty(greedyTimetable, schoolData)

\* the result fields that do not record wall-clock time
Untimed(d) == [unassignedCount |-> d.unassignedCount, penaltyScore |-> d.penaltyScore,
               teacherLoads |-> d.teacherLoads]

\* the earlier calls of this run that were given the options of the current one
SameOptionCalls == {k \in 1 .. Len(calls) : calls[k].options = options}

\* C8 (as amended): a call that returns after an earlier call with the same
\* SchoolConfig, seed and optimizeIterations returns the same timetable and the
\* same unassignedCount, penaltyScore and teacherLoads as that call, whatever
\* calls were made in between; the timing fields timeTakenMs and timeMs are
\* wall-clock readings and are not covered.
DeterministicResult ==
    pc = "done" =>
        \A k \in SameOptionCalls :
            /\ timetable = calls[k].timetable
            /\ Untimed(diagnostics) = Untimed(calls[k].diagnostics)

\* C8 witness: a second call with the options of the first has returned, and
\* its optimizer changed the greedy timetable
DeterministicResultWitness ==
    /\ pc = "done"
    /\ SameOptionCalls # {}
    /\ timetable # greedyTimetable

\* C8 as stated: the whole diagnostics record, timing fields included, is
\* identical
IdenticalDiagnostics ==
    pc = "done" =>
        \A k \in SameOptionCalls :
            /\ timetable = calls[k].timetable
            /\ diagnostics = calls[k].diagnostics

\* C9: with optimizeIterations = 0 no swap is attempted (no draw is made) and
\* the returned timetable is the greedy result.
ZeroIterationsIsGreedy ==
    (pc = "done" /\ options.optimizeIterations = 0) =>
        /\ timetable = greedyTimetable
        /\ it = 0
        /\ rng = createRng(IF options.seed # 0 THEN options.seed ELSE DefaultSeed)

\* C9 witness: a result returned for optimizeIterations = 0 although the first
\* iteration would have kept a swap
ZeroIterationsWitness ==
    /\ pc = "done"
    /\ options.optimizeIterations = 0
    /\ Len(collectAssignedSlots(timetable, schoolData)) >= 2
    /\ iterate(timetable, schoolData, rng, bestPenalty).outcome = "keep"

\* the weekly demand of subject sid over all classes
TotalDemand(sid) ==
    LET cs == schoolData.classes
    IN  IF Len(cs) = 0 THEN 0
        ELSE cs[1].subjects[sid] + (IF Len(cs) > 1 THEN cs[2].subjects[sid] ELSE 0)

\* subject sid needs a resource type of which the configuration has no resource
NeedsMissingResource(sid) ==
    LET type == inferSubjectResourceType(subjectsById(schoolData, sid))
    IN  type # "none" /\ Len(resourcesByType(schoolData, type)) = 0

\* every requirement of the subjects other than sid was placed by the greedy pass
OthersPlaced(sid) ==
    \A c \in ClassIds(schoolData) : \A o \in SubjectIds \ {sid} :
        Cardinality({x \in GridCells :
                        /\ x[1] = c
                        /\ greedyTimetable[c][x[2]][x[3]].kind = "assigned"
                        /\ greedyTimetable[c][x[2]][x[3]].subjectId = o})
            = ClassRecord(c).subjects[o] * SpanOf(o)

\* C10: when a subject needs a resource type the configuration has no resource
\* of (the other subjects being placeable), the returned timetable holds no
\* assignment of the subject and diagnostics.unassignedCount is the subject's
\* total weekly demand, double-period subjects included.
MissingResourceUnassigned ==
    \A sid \in SubjectIds :
        (pc = "done" /\ NeedsMissingResource(sid) /\ OthersPlaced(sid)) =>
            /\ \A x \in AssignedCells : Cell(x).subjectId # sid
            /\ diagnostics.unassignedCount = TotalDemand(sid)

\* reading `.double` of a null cell raises a TypeError (swapFeasible's Aentry
\* and Bentry, moveEntry's entry)
readsNull(a, b, tt) ==
    \/ tt[a.classId][a.day][a.period].kind = "null"
    \/ tt[b.classId][b.day][b.period].kind = "null"

\* the next pass of the optimizer loop body would raise an error
iterationThrows ==
    \E dr \in {drawPair(timetable, schoolData, rng)} :
        /\ dr.defined
        /\ dr.pool[dr.ia + 1] # dr.pool[dr.ib + 1]
        /\ readsNull(dr.pool[dr.ia + 1], dr.pool[dr.ib + 1], timetable)

\* C11: generateTimetable completes normally: the greedy pass handles the
\* requirements one by one, each exactly once; the optimizer loop makes at most
\* optimizeIterations passes, skipped and infeasible ones included; no pass
\* raises an error; and the call returns.
CompletesNormally ==
    /\ [][(pc = "greedy" /\ pc' = "greedy") => slotIdx' = slotIdx + 1]_vars
    /\ [](pc # "greedy" => slotIdx = Len(required) + 1)
    /\ [][(pc = "optimize" /\ pc' = "optimize") => it' = it + 1]_vars
    /\ [](pc # "greedy" => it <= iterationsOf(options))
    /\ [](InLoop => ~iterationThrows)
    /\ <>(pc = "done")

\* C11 witness: a call that returned after using up its whole budget on a
\* timetable with an unplaceable requirement
CompletesNormallyWitness ==
    /\ pc = "done"
    /\ it = MaxIter
    /\ MarkerCells # {}


markerCells(grid) ==
    {x \in (DOMAIN grid) \X (0 .. NumPeriods) :
        x[2] \in DOMAIN grid[x[1]] /\ grid[x[1]][x[2]].kind = "unassigned"}

\* C13: whenever tryAssignSlot fails it returns false and leaves the class grid
\* with span (1 or 2) more unassigned-marker cells of the subject than before,
\* the other cells as they were.
FailureLeavesMarker ==
    (pc = "greedy" /\ slotIdx <= Len(required)) =>
        \A slot \in {required[slotIdx]} :
        \A r \in {tryAssignSlot(timetable[slot.classId], slot.subjectId,
                                 slot.requiresDouble, slot.resourceType, schoolData,
                                 teacherSchedule, resourceSchedule, teacherLoads)} :
            ~r.ok =>
                /\ Cardinality(markerCells(r.classGrid) \ markerCells(timetable[slot.classId]))
                       = (IF slot.requiresDouble THEN 2 ELSE 1)
                /\ \A x \in markerCells(r.classGrid) \ markerCells(timetable[slot.classId]) :
                       /\ r.classGrid[x[1]][x[2]].subjectId = slot.subjectId
                       /\ timetable[slot.classId][x[1]][x[2]].kind = "null"

\* entry e carries the subject, teacher, resource and double flag of entry f
carries(e, f) ==
    /\ e.kind = "assigned"
    /\ e.subjectId = f.subjectId
    /\ e.teacherId = f.teacherId
    /\ e.resourceId = f.resourceId
    /\ e.double = f.double

\* C14: when the optimizer applies and keeps a swap of A and B, B's former slot
\* then holds A's subject, teacher, resource and double flag, and A's former
\* slot holds B's.
KeptSwapExchanges ==
    InLoop =>
        \A dr \in {drawPair(timetable, schoolData, rng)} :
        \A r \in {iterateWith(timetable, schoolData, bestPenalty, dr)} :
            r.outcome = "keep" =>
                \A a \in {dr.pool[dr.ia + 1]} : \A b \in {dr.pool[dr.ib + 1]} :
                    /\ carries(r.timetable[b.classId][b.day][b.period],
                               timetable[a.classId][a.day][a.period])
                    /\ carries(r.timetable[a.classId][a.day][a.period],
                               timetable[b.classId][b.day][b.period])

\* the cells of the span of the pool entry x in its own class grid
spanCells(tt, x) ==
    {<<x.classId, x.day, q>> :
        q \in spanPeriods(tt[x.classId][x.day][x.period].double, x.period)}

\* C15: after any optimizer iteration every cell outside the spans of the two
\* picked entries A and B (in their own class grids) is as it was before, no
\* row has gained a cell, and the grids of the other classes are as they were.
SwapTouchesOnlyItsEntries ==
    InLoop =>
        \A dr \in {drawPair(timetable, schoolData, rng)} :
        \A r \in {iterateWith(timetable, schoolData, bestPenalty, dr)} :
            IF r.outcome \in {"skip", "infeasible"}
            THEN r.timetable = timetable
            ELSE \A touched \in {spanCells(timetable, dr.pool[dr.ia + 1])
                                    \cup spanCells(timetable, dr.pool[dr.ib + 1])} :
                 \A c \in DOMAIN timetable : \A d \in DOMAIN timetable[c] :
                     /\ DOMAIN r.timetable[c][d] = DOMAIN timetable[c][d]
                     /\ \A p \in DOMAIN timetable[c][d] :
                            <<c, d, p>> \notin touched =>
                                r.timetable[c][d][p] = timetable[c][d][p]

\* C16: after an optimizer iteration whose trial swap is rejected, every cell
\* of every class grid is what it was before the iteration, and bestPenalty is
\* unchanged.
RollbackExact ==
    /\ InLoop =>
           \A r \in {iterate(timetable, schoolData, rng, bestPenalty)} :
               r.outcome = "revert" =>
                   r.timetable = timetable /\ r.bestPenalty = bestPenalty
    /\ [][(InLoop /\ iterate(timetable, schoolData, rng, bestPenalty).outcome = "revert")
              => (timetable' = timetable /\ bestPenalty' = bestPenalty)]_vars

\* C16 witness: a trial swap that changed the grid of B's class, did not lower
\* the penalty and is about to be rolled back
RollbackExactWitness ==
    /\ InLoop
    /\ \E dr \in {drawPair(timetable, schoolData, rng)} :
           /\ iterateWith(timetable, schoolData, bestPenalty, dr).outcome = "revert"
           /\ \E b \in {dr.pool[dr.ib + 1]} :
                  applySwap(dr.pool[dr.ia + 1], b, timetable)[b.classId]
                      # timetable[b.classId]

\* the two picks of the coming iteration are defined, distinct and feasible
feasibleTrial ==
    /\ InLoop
    /\ \E dr \in {drawPair(timetable, schoolData, rng)} :
           /\ dr.defined
           /\ dr.pool[dr.ia + 1] # dr.pool[dr.ib + 1]
           /\ swapFeasible(dr.pool[dr.ia + 1], dr.pool[dr.ib + 1], timetable, schoolData)

\* the penalty of the whole timetable after the trial swap of the coming iteration
trialPenalty ==
    CHOOSE n \in {totalPenalty(applySwap(dr.pool[dr.ia + 1], dr.pool[dr.ib + 1], timetable),
                               schoolData) :
                      dr \in {drawPair(timetable, schoolData, rng)}} : TRUE

\* C17: a feasible trial swap is kept if and only if the penalty recomputed on
\* the whole timetable after the swap is strictly less than bestPenalty; with an
\* equal or higher penalty the swap is reverted.
StrictAcceptance ==
    /\ feasibleTrial =>
           \A n \in {trialPenalty} :
           \A r \in {iterate(timetable, schoolData, rng, bestPenalty)} :
               /\ r.outcome \in {"keep", "revert"}
               /\ r.outcome = "keep" <=> n < bestPenalty
               /\ r.outcome = "keep" => r.bestPenalty = n
               /\ r.outcome = "revert" => r.timetable = timetable
    /\ [][(feasibleTrial /\ trialPenalty >= bestPenalty)
              => (timetable' = timetable /\ bestPenalty' = bestPenalty)]_vars
    /\ [][(feasibleTrial /\ trialPenalty < bestPenalty)
              => bestPenalty' = trialPenalty]_vars

\* C17 witness: a feasible trial swap that changes the timetable and leaves
\* the penalty exactly equal to bestPenalty
StrictAcceptanceWitness ==
    /\ feasibleTrial
    /\ trialPenalty = bestPenalty
    /\ \E dr \in {drawPair(timetable, schoolData, rng)} :
           applySwap(dr.pool[dr.ia + 1], dr.pool[dr.ib + 1], timetable) # timetable

\* the pairs of assigned cells at periods p and p + 1 of one class and day with
\* equal subjectId, named by the first cell
sameSubjectPairs ==
    {x \in AssignedCells :
        /\ <<x[1], x[2], x[3] + 1>> \in AssignedCells
        /\ Cell(<<x[1], x[2], x[3] + 1>>).subjectId = Cell(x).subjectId}

\* the pair starting at x is the head and the second half of one double
halvesOfOneDouble(x) ==
    /\ Cell(x).double /\ Cell(x).headOfDouble = "true"
    /\ Cell(<<x[1], x[2], x[3] + 1>>).double
    /\ Cell(<<x[1], x[2], x[3] + 1>>).headOfDouble = "false"
    /\ Cell(<<x[1], x[2], x[3] + 1>>).teacherId = Cell(x).teacherId

\* the teacher has a lesson in some class at (day, p)
teaches(t, d, p) ==
    \E x \in AssignedCells : x[2] = d /\ x[3] = p /\ Cell(x).teacherId = t

\* the (teacher, day, p) with the teacher busy at p - 1, free at p, busy at p + 1
idleGaps ==
    {y \in TeacherIds(schoolData) \X Days(schoolData) \X Periods(schoolData) :
        /\ y[3] - 1 \in Periods(schoolData)
        /\ y[3] + 1 \in Periods(schoolData)
        /\ teaches(y[1], y[2], y[3] - 1)
        /\ ~teaches(y[1], y[2], y[3])
        /\ teaches(y[1], y[2], y[3] + 1)}

\* C18: for a timetable whose only same-subject adjacent cells are the head and
\* the second half of double-period entries, computeDiagnostics returns a
\* penaltyScore without adjacency contribution: the markers and the teacher
\* gaps alone make it up.
DoubleHalvesNotPenalised ==
    (\A x \in sameSubjectPairs : halvesOfOneDouble(x)) =>
        computeDiagnostics(timetable, schoolData).penaltyScore
            = 20 * Cardinality(MarkerCells) + 5 * Cardinality(idleGaps)

\* C19: for a timetable without double-period entries computeDiagnostics
\* returns penaltyScore = 20 x markers + 10 x same-subject adjacent pairs
\* + 5 x teacher gaps, and unassignedCount = the number of marker cells; the
\* diagnostics returned with such a timetable carry these two values.
PenaltyFormula ==
    (\A x \in AssignedCells : ~Cell(x).double) =>
        /\ \A d \in {computeDiagnostics(timetable, schoolData)} :
               /\ d.penaltyScore = 20 * Cardinality(MarkerCells)
                                      + 10 * Cardinality(sameSubjectPairs)
                                      + 5 * Cardinality(idleGaps)
               /\ d.unassignedCount = Cardinality(MarkerCells)
        /\ pc = "done" =>
               /\ diagnostics.penaltyScore = 20 * Cardinality(MarkerCells)
                                                + 10 * Cardinality(sameSubjectPairs)
                                                + 5 * Cardinality(idleGaps)
               /\ diagnostics.unassignedCount = Cardinality(MarkerCells)

\* C19 witness: a returned timetable without doubles in which all three terms
\* are present
PenaltyFormulaWitness ==
    /\ pc = "done"
    /\ \A x \in AssignedCells : ~Cell(x).double
    /\ MarkerCells # {}
    /\ sameSubjectPairs # {}
    /\ idleGaps # {}

\* requirement a is ranked before requirement b by the keys, in this order:
\* double period, resource needed, weeklyPeriods (higher first), classId,
\* subjectId
rankedBefore(a, b) ==
    \/ a.requiresDouble /\ ~b.requiresDouble
    \/ /\ a.requiresDouble = b.requiresDouble
       /\ \/ a.resourceType # "none" /\ b.resourceType = "none"
          \/ /\ (a.resourceType = "none") = (b.resourceType = "none")
             /\ \/ a.weeklyPeriods > b.weeklyPeriods
                \/ /\ a.weeklyPeriods = b.weeklyPeriods
                   /\ \/ IdRank(a.classId) < IdRank(b.classId)
                      \/ /\ a.classId = b.classId
                         /\ IdRank(a.subjectId) < IdRank(b.subjectId)

\* C20: the requirements are handed to the greedy assigner in the order double
\* period first, then resource-requiring first, then higher weeklyPeriods,
\* then classId ascending, then subjectId ascending: none stands behind one it
\* is ranked before, each class and subject has as many as the class asks for,
\* and the assigner takes them one by one from the front, each step writing
\* only cells of the requirement's class with the requirement's subject.
SortedHandOver ==
    /\ [](\A i \in 1 .. Len(required) : \A j \in i + 1 .. Len(required) :
              ~rankedBefore(required[j], required[i]))
    /\ [](\A c \in ClassIds(schoolData) : \A sid \in SubjectIds :
              Cardinality({i \in 1 .. Len(required) :
                              required[i].classId = c /\ required[i].subjectId = sid})
                  = ClassRecord(c).subjects[sid])
    /\ [][(pc = "greedy" /\ pc' = "greedy") =>
              /\ required' = required
              /\ slotIdx' = slotIdx + 1
              /\ \A x \in GridCells :
                     timetable'[x[1]][x[2]][x[3]] # timetable[x[1]][x[2]][x[3]] =>
                         /\ x[1] = required[slotIdx].classId
                         /\ timetable'[x[1]][x[2]][x[3]].subjectId
                                = required[slotIdx].subjectId]_vars

\* C20 witness: a double-period requirement without resource of class c2 and
\* subject s2 was handed over before a resource-requiring single of class c1
\* and subject s1, and both have been written into the grids
SortedHandOverWitness ==
    \E i \in 1 .. Len(required) : \E j \in i + 1 .. Len(required) :
        /\ j < slotIdx
        /\ required[i].requiresDouble /\ required[i].resourceType = "none"
        /\ ~required[j].requiresDouble /\ required[j].resourceType # "none"
        /\ required[i].classId = "c2" /\ required[j].classId = "c1"
        /\ required[i].subjectId = "s2" /\ required[j].subjectId = "s1"
        /\ \E x \in AssignedCells : Cell(x).subjectId = "s2" /\ x[1] = "c2"
        /\ \E x \in AssignedCells : Cell(x).subjectId = "s1" /\ x[1] = "c1"

\* teacher record t can take the requirement at (d, periods) in the current
\* state: qualified, available, unoccupied, load + span <= maxLoad
teacherFits(t, slot, d, periods) ==
    /\ slot.subjectId \in t.subjects
    /\ \A p \in periods : t.availability[d][p]
    /\ teacherSchedule[t.id][d] \cap periods = {}
    /\ teacherLoads[t.id] + Cardinality(periods) <= t.maxLoad

\* resource record res can serve the requirement at (d, periods)
resourceFits(res, slot, d, periods) ==
    /\ res.type = slot.resourceType
    /\ \A p \in periods : res.availability[d][p]
    /\ resourceSchedule[res.id][d] \cap periods = {}

\* the cells the requirement would take when started at period p
targetPeriods(slot, p) == IF slot.requiresDouble THEN {p, p + 1} ELSE {p}

\* the requirement can be placed with its head at (d, p)
startFits(slot, d, p) ==
    /\ targetPeriods(slot, p) \subseteq Periods(schoolData)
    /\ \A q \in targetPeriods(slot, p) : timetable[slot.classId][d][q].kind = "null"
    /\ \E t \in SeqToSet(schoolData.teachers) : teacherFits(t, slot, d, targetPeriods(slot, p))
    /\ slot.resourceType # "none" =>
           \E res \in SeqToSet(schoolData.resources) :
               resourceFits(res, slot, d, targetPeriods(slot, p))

\* the SchoolConfig has one class with demand, for the one subject s1, which is
\* neither double nor in need of a resource, and a fully available teacher
\* qualified for it whose maxLoad covers the demand
oneClassOnePlainSubject(c) ==
    /\ ClassRecord(c).subjects["s1"] >= 1
    /\ ClassRecord(c).subjects["s2"] = 0
    /\ \A o \in ClassIds(schoolData) \ {c} : \A sid \in SubjectIds :
           ClassRecord(o).subjects[sid] = 0
    /\ ~subjectsById(schoolData, "s1").doublePeriod
    /\ inferSubjectResourceType(subjectsById(schoolData, "s1")) = "none"
    /\ \E t \in SeqToSet(schoolData.teachers) :
           /\ "s1" \in t.subjects
           /\ \A d \in Days(schoolData) : \A p \in Periods(schoolData) : t.availability[d][p]
           /\ t.maxLoad >= ClassRecord(c).subjects["s1"]

SingleClassCaseWitness ==
    /\ pc = "optimize" /\ it = 0
    /\ \E c \in ClassIds(schoolData) :
           oneClassOnePlainSubject(c) /\ ClassRecord(c).subjects["s1"] = MaxCount

\* the resource type the subject record needs: its explicit resourceType, else
\* for a lab subject computer_lab when the name contains 'computer' and lab
\* otherwise, else none
neededType(subj) ==
    CASE subj.resourceType # "none" -> subj.resourceType
      [] subj.resourceType = "none" /\ subj.lab /\ nameIncludesComputer(subj.name) -> "computer_lab"
      [] subj.resourceType = "none" /\ subj.lab /\ ~nameIncludesComputer(subj.name) -> "lab"
      [] OTHER -> "none"

teacherPeriods(t, d) ==
    {p \in Periods(schoolData) :
        \E c \in ClassIds(schoolData) :
            timetable[c][d][p].kind = "assigned" /\ timetable[c][d][p].teacherId = t}

resourcePeriods(rid, d) ==
    {p \in Periods(schoolData) :
        \E c \in ClassIds(schoolData) :
            timetable[c][d][p].kind = "assigned" /\ timetable[c][d][p].resourceId = rid}

\* C23: at every point of generateTimetable, after every accepted swap too,
\* teacherSchedule and resourceSchedule equal the occupancy derived from the
\* assigned cells of the current timetable.
OccupancyConsistent ==
    /\ \A t \in TeacherIds(schoolData) : \A d \in Days(schoolData) :
           teacherSchedule[t][d] = teacherPeriods(t, d)
    /\ \A rid \in ResourceIds(schoolData) : \A d \in Days(schoolData) :
           resourceSchedule[rid][d] = resourcePeriods(rid, d)

\* the grids of tt have workingDays rows of periodsPerDay cells each, and no
\* head of a double stands at the last period of a day
withinBounds(tt) ==
    \A c \in DOMAIN tt :
        /\ DOMAIN tt[c] = Days(schoolData)
        /\ \A d \in DOMAIN tt[c] :
               /\ DOMAIN tt[c][d] = Periods(schoolData)
               /\ \A p \in DOMAIN tt[c][d] :
                      (tt[c][d][p].double /\ tt[c][d][p].headOfDouble = "true")
                          => p + 1 < schoolData.periodsPerDay

\* C24: throughout generation every class grid keeps exactly workingDays rows
\* of exactly periodsPerDay cells, and no double-period head stands at the last
\* period of a day, in the timetable or in the grids a trial swap passes
\* through (after its first move, after its second move).
GridBounds ==
    /\ withinBounds(timetable)
    /\ feasibleTrial =>
           \A dr \in {drawPair(timetable, schoolData, rng)} :
           \A a \in {dr.pool[dr.ia + 1]} : \A b \in {dr.pool[dr.ib + 1]} :
               /\ withinBounds(moveEntry(timetable, a.classId, a, b.classId, b))
               /\ withinBounds(applySwap(a, b, timetable))

\* C25: each tryAssignSlot call writes only previously empty cells of its own
\* class's grid: a cell that holds an assignment or an unassigned marker is
\* never changed or cleared by a later call of the greedy pass.
NoBacktracking ==
    /\ (pc = "greedy" /\ slotIdx <= Len(required)) =>
           \A slot \in {required[slotIdx]} :
           \A r \in {tryAssignSlot(timetable[slot.classId], slot.subjectId,
                                    slot.requiresDouble, slot.resourceType, schoolData,
                                    teacherSchedule, resourceSchedule, teacherLoads)} :
               /\ DOMAIN r.classGrid = DOMAIN timetable[slot.classId]
               /\ \A d \in Days(schoolData) : \A p \in Periods(schoolData) :
                      timetable[slot.classId][d][p].kind # "null" =>
                          r.classGrid[d][p] = timetable[slot.classId][d][p]
    /\ [][(pc = "greedy" /\ pc' = "greedy") =>
              \A x \in GridCells :
                  timetable'[x[1]][x[2]][x[3]] # timetable[x[1]][x[2]][x[3]] =>
                      /\ timetable[x[1]][x[2]][x[3]].kind = "null"
                      /\ x[1] = required[slotIdx].classId]_vars

\* C25 witness: the greedy pass is under way in a class grid that holds both
\* an assignment and an unassigned marker written by earlier calls, with a
\* requirement of the same class still to come
NoBacktrackingWitness ==
    /\ pc = "greedy"
    /\ slotIdx <= Len(required)
    /\ \E x \in AssignedCells : \E y \in MarkerCells :
           x[1] = required[slotIdx].classId /\ y[1] = required[slotIdx].classId

(***************************************************************************)
(* The edit log (store.js) and the learned penalties (learn.js)            *)
(***************************************************************************)
TeacherPeriodWeight == 5
SubjectPeriodWeight == 3
MinMoves == 2

\* `before` / `after` of a log entry: null, or an object with subjectId and
\* teacherId, each a string, null or missing ("undef")
NoCell == [kind |-> "null", subjectId |-> "undef", teacherId |-> "undef"]
editCell(sid, tid) == [kind |-> "object", subjectId |-> sid, teacherId |-> tid]

EditPeriods == {0, 1}

\* handleSaveEdit's logEdit({ before: prev, after: next, location, reason }):
\* prev is null, a cell of the generator (an assignment, or a marker without
\* teacherId) or an earlier `next`; next is null or { subjectId, teacherId ||
\* null }
ManualEdits ==
    {[hasLocation |-> TRUE, period |-> p, before |-> b, after |-> a] :
        p \in EditPeriods,
        b \in {NoCell, editCell("s1", "t1"), editCell("s2", "t2"), editCell("s1", "undef")},
        a \in {NoCell, editCell("s1", "t1"), editCell("s1", "null")}}

\* the set-up page's logEdit({ type: 'saveSchoolData', at }): no location
SaveLog == [hasLocation |-> FALSE, period |-> -1, before |-> NoCell, after |-> NoCell]

EditSet == ManualEdits \cup {SaveLog}

\* logEdit: all.push({ ...edit, at }); safeSet(KEY_EDIT_LOGS, all)
logEdit(all, edit) == Append(all, edit)

\* String(period) and Number(per) on the periods in use
periodKey(p) == CASE p = 0 -> "0" [] p = 1 -> "1" [] p = 2 -> "2" [] OTHER -> "3"
keyPeriod(k) == CASE k = "0" -> 0 [] k = "1" -> 1 [] k = "2" -> 2 [] OTHER -> 3

EmptyMap == [x \in {} |-> 0]

\* incNested(mapObj, a, b, by)
incNested(mapObj, a, b, by) ==
    LET inner == IF a \in DOMAIN mapObj THEN mapObj[a] ELSE EmptyMap
        cur == IF b \in DOMAIN inner THEN inner[b] ELSE 0
    IN  [x \in (DOMAIN mapObj) \cup {a} |->
            IF x = a
            THEN [y \in (DOMAIN inner) \cup {b} |-> IF y = b THEN cur + by ELSE inner[y]]
            ELSE mapObj[x]]

\* a string id is truthy; null and a missing field are not
truthyId(id) == id \notin {"undef", "null"}

\* mutant: only a cleared cell counts as a move away
movedAwayOnlyCleared(before, after) == before.kind # "null" /\ after.kind = "null"

\* the "move away" test of getAggregates
movedAway(before, after) ==
    /\ before.kind # "null"
    /\ \/ after.kind = "null"
       \/ before.subjectId # after.subjectId
       \/ before.teacherId # after.teacherId

RECURSIVE getAggregates(_)
\* getAggregates over loadEditLogs() = logs
getAggregates(logs) ==
    IF Len(logs) = 0
    THEN [teacherPeriodMoves |-> EmptyMap, subjectPeriodMoves |-> EmptyMap]
    ELSE \* the loop body on the last entry, after the loop over the entries before
         CHOOSE r \in
           {IF ~entry.hasLocation \/ ~movedAway(entry.before, entry.after)
            THEN acc
            ELSE [teacherPeriodMoves |->
                      IF truthyId(entry.before.teacherId)
                      THEN incNested(acc.teacherPeriodMoves, entry.before.teacherId,
                                     periodKey(entry.period), 1)
                      ELSE acc.teacherPeriodMoves,
                  subjectPeriodMoves |->
                      IF truthyId(entry.before.subjectId)
                      THEN incNested(acc.subjectPeriodMoves, entry.before.subjectId,
                                     periodKey(entry.period), 1)
                      ELSE acc.subjectPeriodMoves] :
              acc \in {getAggregates(SubSeq(logs, 1, Len(logs) - 1))},
              entry \in {logs[Len(logs)]}} : TRUE

\* the two loops of getPreferencePenalties: id -> Number(per) -> count * weight
\* for the counts >= 2
penaltiesOf(moves, weight) ==
    [a \in {x \in DOMAIN moves : \E b \in DOMAIN moves[x] : moves[x][b] >= MinMoves} |->
        [n \in {keyPeriod(b) : b \in {k \in DOMAIN moves[a] : moves[a][k] >= MinMoves}} |->
            moves[a][periodKey(n)] * weight]]

getPreferencePenalties(logs) ==
    CHOOSE r \in {[teacherPeriods |-> penaltiesOf(g.teacherPeriodMoves, TeacherPeriodWeight),
                   subjectPeriods |-> penaltiesOf(g.subjectPeriodMoves, SubjectPeriodWeight)] :
                     g \in {getAggregates(logs)}} : TRUE

\* the runs of the edit log: a SchoolConfig is loaded, no call is under way
LearnConfigs == {CHOOSE c \in FairConfigs : TRUE}

InitLearn == InitOver(LearnConfigs) /\ editLogs = << >>

\* one logEdit call
LogEdit ==
    /\ Len(editLogs) < MaxEdits
    /\ \E edit \in EditSet : editLogs' = logEdit(editLogs, edit)
    /\ UNCHANGED <<schoolData, options, pc, timetable, required, slotIdx, teacherSchedule,
                   resourceSchedule, teacherLoads, rng, it, bestPenalty, diagnostics, now,
                   t0, greedyTimetable, calls>>

NextLearn == LogEdit

SpecLearn == InitLearn /\ [][NextLearn]_vars

\* the logged edits at period p whose `before` has the id in the field and
\* whose `after` is empty or differs from `before` in subjectId or teacherId
movesAt(p, field, id) ==
    {i \in 1 .. Len(editLogs) :
        /\ editLogs[i].hasLocation
        /\ editLogs[i].period = p
        /\ editLogs[i].before.kind = "object"
        /\ editLogs[i].before[field] = id
        /\ \/ editLogs[i].after.kind = "null"
           \/ editLogs[i].after.subjectId # editLogs[i].before.subjectId
           \/ editLogs[i].after.teacherId # editLogs[i].before.teacherId}

\* the penalty that the map reports for id and period p, 0 when it has none
reported(map, id, p) ==
    IF id \in DOMAIN map /\ p \in DOMAIN map[id] THEN map[id][p] ELSE 0

\* C26: after any sequence of logged edits, for every teacher t and period p,
\* with c the number of logged edits at p whose before names t and whose after
\* is empty or differs from before in subjectId or teacherId,
\* getPreferencePenalties reports 5*c when c >= 2 and nothing when c < 2;
\* likewise 3*c for every subject and period.
LearnedPenaltiesCount ==
    \A r \in {getPreferencePenalties(editLogs)} :
    \A p \in EditPeriods :
        /\ \A t \in {"t1", "t2"} :
               \A c \in {Cardinality(movesAt(p, "teacherId", t))} :
                   /\ c >= 2 => reported(r.teacherPeriods, t, p) = 5 * c
                   /\ c < 2 => ~(t \in DOMAIN r.teacherPeriods
                                    /\ p \in DOMAIN r.teacherPeriods[t])
        /\ \A sid \in {"s1", "s2"} :
               \A c \in {Cardinality(movesAt(p, "subjectId", sid))} :
                   /\ c >= 2 => reported(r.subjectPeriods, sid, p) = 3 * c
                   /\ c < 2 => ~(sid \in DOMAIN r.subjectPeriods
                                    /\ p \in DOMAIN r.subjectPeriods[sid])

\* C26 witness: three edits moved teacher t1 away from period 0 (penalty 15),
\* one by clearing the cell and one by taking the teacher off the subject
LearnedPenaltiesCountWitness ==
    /\ Len(editLogs) = MaxEdits
    /\ reported(getPreferencePenalties(editLogs).teacherPeriods, "t1", 0)
           = TeacherPeriodWeight * MaxEdits
    /\ \E i \in 1 .. Len(editLogs) : editLogs[i].after = editCell("s1", "null")
    /\ \E i \in 1 .. Len(editLogs) : editLogs[i].after = NoCell

(***************************************************************************)
(* bestPenalty and the timetable it scores (generator.js:458-490)          *)
(***************************************************************************)
\* C27: from the start of the optimizer on, after every pass of its loop
\* (kept, reverted, skipped, infeasible), bestPenalty is the penaltyScore of
\* computeDiagnostics on the current timetable; the returned penaltyScore is
\* the last bestPenalty.
BestPenaltyTracksTimetable ==
    /\ AfterGreedy =>
          bestPenalty = computeDiagnostics(timetable, schoolData).penaltyScore
    /\ pc = "done" => diagnostics.penaltyScore = bestPenalty

\* C27 witness: a call that returned after its whole budget, having kept a
\* swap, with a penalty left that is not made of markers alone
BestPenaltyTracksTimetableWitness ==
    /\ pc = "done"
    /\ it = MaxIter
    /\ timetable # greedyTimetable
    /\ bestPenalty > UnassignedPenalty * diagnostics.unassignedCount

(***************************************************************************)
(* Swaps inside one class (generator.js:308-323, 463-472)                  *)
(***************************************************************************)
\* a school with the one class c1
OneClassLists ==
    { << [id |-> "c1", subjects |-> [s \in {"s1", "s2"} |-> IF s = "s1" THEN n1 ELSE n2]] >> :
        n1 \in 0 .. MaxCount, n2 \in 0 .. MaxCount }

OneClassConfigs ==
    UNION { { [workingDays |-> d, periodsPerDay |-> NumPeriods,
               subjects |-> <<k[1], PlainSubject>>,
               teachers |-> ts, classes |-> cs, resources |-> k[2]] :
                k \in SubjectCases(d, NumPeriods), ts \in TeacherLists(d, NumPeriods),
                cs \in OneClassLists } :
            d \in 1 .. MaxDays }

\* calls on a one-class school, and on the two-class schools of FairConfigs
InitOneClass == InitOver(OneClassConfigs \cup FairConfigs) /\ editLogs = << >>
SpecOneClass == InitOneClass /\ [][Next]_vars

noDoubleSubject == \A i \in 1 .. Len(schoolData.subjects) : ~schoolData.subjects[i].doublePeriod

\* C28: swapFeasible accepts two different pooled entries of one class only
\* if both are doubles of the same subject and teacher; on a school with one
\* class and no double-period subject the optimizer leaves the timetable as
\* the greedy pass made it, and the call returns the greedy result.
SameClassSwapsRejected ==
    /\ AfterGreedy =>
          \A a, b \in SeqToSet(collectAssignedSlots(timetable, schoolData)) :
              (a # b /\ a.classId = b.classId /\ swapFeasible(a, b, timetable, schoolData)) =>
                  LET Aentry == timetable[a.classId][a.day][a.period]
                      Bentry == timetable[b.classId][b.day][b.period]
                  IN  /\ Aentry.double /\ Bentry.double
                      /\ Aentry.subjectId = Bentry.subjectId
                      /\ Aentry.teacherId = Bentry.teacherId
    /\ (AfterGreedy /\ Len(schoolData.classes) = 1 /\ noDoubleSubject) =>
          /\ timetable = greedyTimetable
          /\ pc = "done" =>
                Untimed(diagnostics) = Untimed(computeDiagnostics(greedyTimetable, schoolData))

\* C28 witness: a one-class school without double-period subject, whose call
\* returned after its whole budget with at least two entries in the pool
SameClassSwapsRejectedWitness ==
    /\ pc = "done"
    /\ it = MaxIter
    /\ Len(schoolData.classes) = 1
    /\ noDoubleSubject
    /\ Len(collectAssignedSlots(timetable, schoolData)) >= 2

(***************************************************************************)
(* Calls whose options carry the learned penalties (learn.js:82-85)        *)
(***************************************************************************)
\* applyLearnedPenaltiesToOptions: { ...options, learnedPenalties }, the
\* penalties being getPreferencePenalties() of the stored log
applyLearnedPenaltiesToOptions(opts, logs) ==
    [learnedPenalties |-> getPreferencePenalties(logs)] @@ opts

\* k times the edit that takes the lesson of s1 with teacher t out of period p
movedOut(t, p, k) ==
    [i \in 1 .. k |-> [hasLocation |-> TRUE, period |-> p, before |-> editCell("s1", t),
                       after |-> NoCell]]

\* stored logs: none, one without a penalty, one with a penalty for t1 in the
\* second period, one with penalties for both teachers in the first three
LearnedLogs ==
    { << >>, movedOut("t1", 0, 1), movedOut("t1", 1, MinMoves),
      movedOut("t1", 0, MinMoves) \o movedOut("t1", 1, MinMoves + 1)
          \o movedOut("t1", 2, MinMoves) \o movedOut("t2", 0, MinMoves)
          \o movedOut("t2", 1, MinMoves) \o movedOut("t2", 2, MinMoves + 1) }

InitLearned == InitOver(RepeatConfigs) /\ editLogs \in LearnedLogs

\* the greedy loop is over in a call that was given
\* applyLearnedPenaltiesToOptions(o) as its options
StartOptimizerLearned ==
    /\ pc = "greedy"
    /\ slotIdx > Len(required)
    /\ \E o \in OptionSet : readOptions(applyLearnedPenaltiesToOptions(o, editLogs))

NextLearned ==
    \/ Next
    \/ StartOptimizerLearned
    \/ CallAgain

SpecLearned == InitLearned /\ [][NextLearned]_vars

\* the learnedPenalties arguments tried on computePenalty
PenaltyArguments ==
    {Undefined, getPreferencePenalties(editLogs)}
        \cup {getPreferencePenalties(l) : l \in LearnedLogs}

hasLearnedPenalties(opts) == "learnedPenalties" \in DOMAIN opts

\* the earlier calls of the run with the seed and the budget of the current one
SameSeedAndBudgetCalls ==
    {k \in 1 .. Len(calls) :
        /\ calls[k].options.seed = options.seed
        /\ calls[k].options.optimizeIterations = options.optimizeIterations}

EdgeSeeds == {653637408, 2117335195}

\* options with an edge seed, and options without a seed
EdgeOptionSet ==
    {[seed |-> sd, optimizeIterations |-> MaxIter] : sd \in EdgeSeeds}
        \cup {[optimizeIterations |-> MaxIter]}

\* the greedy loop is over in a call that was given options of EdgeOptionSet
StartOptimizerEdge ==
    /\ pc = "greedy"
    /\ slotIdx > Len(required)
    /\ \E o \in EdgeOptionSet : readOptions(o)

InitRng == InitOver(FairConfigs) /\ editLogs = << >>

NextRng ==
    \/ Next
    \/ StartOptimizerEdge

SpecRng == InitRng /\ [][NextRng]_vars

MaxState == <<Word - 1, Word - 1>>

\* the bytes of a 32-bit value given as 16-bit halves, lowest first
bytesOf(s) == <<s[2] % 256, s[2] \div 256, s[1] % 256, s[1] \div 256>>

\* (1664525 * s + 1013904223) mod 2^32 by long multiplication in base 256:
\* column i sums the byte products a[j] * s[k] with j + k = i, the byte of the
\* increment and the carry of column i - 1
lcgFormula(s) ==
    LET a == bytesOf(<<LcgMultiplier \div Word, LcgMultiplier % Word>>)
        c == bytesOf(<<LcgIncrement \div Word, LcgIncrement % Word>>)
        x == bytesOf(s)
        col1 == a[1] * x[1] + c[1]
        col2 == a[1] * x[2] + a[2] * x[1] + c[2] + (col1 \div 256)
        col3 == a[1] * x[3] + a[2] * x[2] + a[3] * x[1] + c[3] + (col2 \div 256)
        col4 == a[1] * x[4] + a[2] * x[3] + a[3] * x[2] + a[4] * x[1] + c[4]
                    + (col3 \div 256)
    IN  <<(col4 % 256) * 256 + (col3 % 256), (col2 % 256) * 256 + (col1 % 256)>>

\* the seed the generator of the current call starts from
startState ==
    LET sd == IF "seed" \in DOMAIN options /\ options.seed # 0 THEN options.seed ELSE 42
    IN  <<sd \div Word, sd % Word>>

RECURSIVE lcgPower(_, _)
lcgPower(s, k) == IF k = 0 THEN s ELSE lcgFormula(lcgPower(s, k - 1))

\* the pool index drawn from generator state s: at most n, and n only from
\* the state 0xffffffff
indexInRange(s, n) ==
    /\ floorIndex(s, n) \in 0 .. n
    /\ floorIndex(s, n) = n <=> s = MaxState

\* C30: the generator state is an unsigned 32-bit value that starts from the
\* seed, or from 42 when the seed is missing or 0, and moves by
\* s' = (1664525*s + 1013904223) mod 2^32, twice in every pass of the
\* optimizer loop; a drawn index is in 0..pool.length, and is pool.length only
\* from the state 0xffffffff; a pass that changes the timetable drew both its
\* indices in 0..pool.length-1, and a pass with a draw outside the pool changes
\* neither the timetable nor bestPenalty.
LcgAndDraws ==
    /\ [](AfterGreedy =>
              /\ rng \in (0 .. Word - 1) \X (0 .. Word - 1)
              /\ rng = lcgPower(startState, 2 * it))
    /\ [][(pc = "optimize" /\ pc' = "optimize") => rng' = lcgFormula(lcgFormula(rng))]_vars
    /\ [](InLoop =>
              \A n \in {Len(collectAssignedSlots(timetable, schoolData))} :
                  /\ indexInRange(lcgFormula(rng), n)
                  /\ indexInRange(lcgFormula(lcgFormula(rng)), n))
    /\ [][(pc = "optimize" /\ pc' = "optimize") =>
              \A n \in {Len(collectAssignedSlots(timetable, schoolData))} :
                  /\ timetable' # timetable =>
                         /\ floorIndex(lcgFormula(rng), n) \in 0 .. n - 1
                         /\ floorIndex(rng', n) \in 0 .. n - 1
                  /\ (lcgFormula(rng) = MaxState \/ rng' = MaxState) =>
                         /\ timetable' = timetable
                         /\ bestPenalty' = bestPenalty
                         /\ it' = it + 1]_vars

\* C30 witness: the optimizer after a pass whose second draw came from the
\* state 0xffffffff, in a call with a seed, on a pool of at least two entries
LcgAndDrawsWitness ==
    /\ pc = "optimize"
    /\ it = 2
    /\ rng = MaxState
    /\ "seed" \in DOMAIN options
    /\ Len(collectAssignedSlots(timetable, schoolData)) >= 2

\* a call without a seed has used up its budget from the state 42
MissingSeedWitness ==
    /\ pc = "done"
    /\ it = MaxIter
    /\ "seed" \notin DOMAIN options
    /\ rng = lcgPower(<<0, 42>>, 2 * MaxIter)

====
